---- MODULE Spec2Model ----
(***************************************************************************)
(* A model of sandtool.py: the clicSAND workbook reader (Sand_Interface)   *)
(* and the otoole template side (Otoole_Interface).                        *)
(*                                                                         *)
(* Python values are represented as follows.                               *)
(*   - a scalar (a cell of a sheet, a column label, a member of a set) is  *)
(*     a one-field record: [str |-> "x"] for a Python str, [int |-> n] for *)
(*     an int, [float |-> "nan"] for the NaN of an empty cell;             *)
(*   - a list or a pandas Series is a sequence;                            *)
(*   - a dict with str keys is a function on a set of strings; its         *)
(*     iteration order is the order of KeyOrder (the documents and         *)
(*     groupby list their keys in ASCII order);                            *)
(*   - an object attribute is a record [kind, val], kind "unset" when the  *)
(*     attribute was never assigned, "False" when it holds False;          *)
(*   - an exception is the name of its class, "none" for a normal return.  *)
(***************************************************************************)
EXTENDS Integers, Sequences, FiniteSets, TLC

VARIABLES
    config_file,      \* the schema document at config_path
    workbook,         \* the clicSAND workbook at input_sand_path
    from_year,        \* Sand_Interface.from_year
    to_year,          \* Sand_Interface.to_year
    sets_list,        \* Sand_Interface.sets_list
    params_list,      \* Sand_Interface.params_list
    config_yaml,      \* Sand_Interface.config_yaml
    input_sand,       \* Sand_Interface.input_sand
    sand_yaml,        \* Sand_Interface.sand_yaml
    sand_config_file, \* the document sand_config.yaml written beside config_path
    otoole,           \* the Otoole_Interface object, once constructed
    template,         \* the otoole workbook at input_otoole_path
    last              \* the last call: its name and the exception it raised

vars == <<config_file, workbook, from_year, to_year, sets_list, params_list,
          config_yaml, input_sand, sand_yaml, sand_config_file, otoole,
          template, last>>

env == <<config_file, workbook, from_year, to_year, template>>

-----------------------------------------------------------------------------
(* Bounds of the model *)

\* rows of one column of the SETS sheet
MaxSetRows == 4
\* rows of the Parameters sheet
MaxParamRows == 3
\* the largest code in a column of the Parameters sheet
MaxCode == 2
\* years after the first year column of the Parameters sheet
MaxYears == 2

-----------------------------------------------------------------------------
(* Python scalars *)

PyStr(s) == [str |-> s]
PyInt(n) == [int |-> n]
PyNaN == [float |-> "nan"]

IsStr(v) == "str" \in DOMAIN v
IsInt(v) == "int" \in DOMAIN v

\* Python's x in list, for a str x and a list of scalars
StrIn(name, list) == \E i \in 1..Len(list) : list[i] = PyStr(name)

\* the elements of a sequence
Range(seq) == {seq[i] : i \in 1..Len(seq)}

\* an attribute never assigned, one holding False, one holding a value
Unset == [kind |-> "unset", val |-> <<>>]
PyFalse == [kind |-> "False", val |-> <<>>]
Val(v) == [kind |-> "value", val |-> v]

\* a normal return and a raised exception
Return(v) == [exc |-> "none", val |-> v]
Raise(e) == [exc |-> e, val |-> <<>>]

-----------------------------------------------------------------------------
(* Names.  KeyOrder is the ASCII order of every str key the model uses:    *)
(* the order in which the schema documents list their fields and in which  *)
(* groupby yields the parameters.                                          *)

KeyOrder ==
    << "CapacityToActivityUnit", "EMISSION", "FUEL", "MODE_OF_OPERATION",
       "REGION", "RateOfActivity", "STORAGE", "TECHNOLOGY", "TIMESLICE",
       "TechnologyToStorage", "VariableCost", "YEAR" >>

\* the keys of a dict, in iteration order
Keys(d) == SelectSeq(KeyOrder, LAMBDA k : k \in DOMAIN d)

\* a list of str without the elements that are in drop, order kept
Without(list, drop) == SelectSeq(list, LAMBDA x : x \notin drop)

-----------------------------------------------------------------------------
(* The SETS sheet: __split_emission_region and __get_sets *)

\* the str cells of the model that contain the substring "ResultsPath"
ResultsPathCells == {"ResultsPath", "C:/ResultsPath/"}

\* "ResultsPath" in row
ContainsResultsPath(row) == row.str \in ResultsPathCells

\* x == "Code" turns x into False, then isinstance(x, str)
str_filter(x) == IF x = PyStr("Code") THEN FALSE ELSE IsStr(x)

\* a loop turn that keeps the marker row itself as the first region
SplitStep_NoSkip(st, n, row) ==
    IF row = PyStr("Region") THEN [st EXCEPT !.m = n, !.i = n]
    ELSE IF ContainsResultsPath(row) THEN [st EXCEPT !.j = n]
    ELSE st

\* one turn of the loop of __split_emission_region at 0-based position n;
\* m, i and j are -1 while unbound
SplitStep(st, n, row) ==
    IF row = PyStr("Region") THEN [st EXCEPT !.m = n, !.i = n + 1]
    ELSE IF ContainsResultsPath(row) THEN [st EXCEPT !.j = n]
    ELSE st

RECURSIVE SplitLoop(_, _, _)
SplitLoop(col, k, st) ==
    IF k > Len(col) THEN st
    ELSE SplitLoop(col, k + 1, SplitStep(st, k - 1, col[k]))

\* Python's col[a:b] for 0 <= a and 0 <= b
Slice(col, a, b) == SubSeq(col, a + 1, IF b > Len(col) THEN Len(col) ELSE b)

split_emission_region(col) ==
    LET st == SplitLoop(col, 1, [m |-> -1, i |-> -1, j |-> -1])
    IN  IF st.i = -1 \/ st.j = -1 \/ st.m = -1
        THEN Raise("UnboundLocalError")
        ELSE Return([emission |-> Slice(col, 0, st.m),
                     region |-> Slice(col, st.i, st.j)])

get_sets(df) ==
    LET tech == SelectSeq(df.Technologies, str_filter)
        fuel == SelectSeq(df.Commodities, str_filter)
        emission_region == SelectSeq(df.Emissions, str_filter)
        split == split_emission_region(emission_region)
    IN  IF split.exc # "none" THEN split
        ELSE Return([tech |-> tech, fuel |-> fuel,
                     emission |-> split.val.emission,
                     region |-> split.val.region])

-----------------------------------------------------------------------------
(* The Parameters sheet.  A workbook is                                    *)
(*   [sets    |-> the three columns of the SETS sheet,                     *)
(*    columns |-> the header of the Parameters sheet without the           *)
(*                discriminator column "Parameter", as read (all str),     *)
(*    rows    |-> its rows, each [Parameter |-> str, cells |-> the cells   *)
(*                under columns]].                                         *)
(* A table (DataFrame) is [columns |-> labels, rows |-> rows of cells].    *)

\* the first year column of the clicSAND sheet (the default from_year)
FirstYear == 2015

\* the digit-only column labels of the model and the int each one parses to
YearLabels == <<"2015", "2016", "2017", "2018", "2019">>

\* col.isdigit()
isdigit(col) == col \in Range(YearLabels)

\* int(y_str)
int(y_str) ==
    FirstYear - 1 + CHOOSE k \in 1..Len(YearLabels) : YearLabels[k] = y_str

\* the three renames of read_input_data applied to one column label
RenameColumn(col) ==
    IF col = "Time indipendent variables" THEN PyStr("VALUE")
    ELSE IF col = "REGION2" THEN PyStr("REGIONR")
    ELSE IF isdigit(col) THEN PyInt(int(col))
    ELSE PyStr(col)

RenameColumns(columns) == [k \in 1..Len(columns) |-> RenameColumn(columns[k])]

\* df.groupby("Parameter"): one table per parameter, the rows in sheet order
GroupRows(rows, param) ==
    LET mine == SelectSeq(rows, LAMBDA r : r.Parameter = param)
    IN  [k \in 1..Len(mine) |-> mine[k].cells]

GroupByParameter(df) ==
    [param \in {df.rows[k].Parameter : k \in 1..Len(df.rows)} |->
        [columns |-> df.columns, rows |-> GroupRows(df.rows, param)]]

\* cols.get_loc(label): the 0-based position of label, -1 when it is no column
get_loc(cols, label) ==
    IF label \in Range(cols)
    THEN (CHOOSE k \in 1..Len(cols) : cols[k] = label) - 1
    ELSE -1

sets_attr(self, dict_df) ==
    IF "CapacityToActivityUnit" \notin DOMAIN dict_df THEN Raise("KeyError")
    ELSE LET cols == dict_df["CapacityToActivityUnit"].columns
             i_year == get_loc(cols, PyInt(self.from_year))
         IN  IF i_year = -1 THEN Raise("KeyError")
             ELSE Return(Slice(cols, 0, i_year) \o <<PyStr("YEAR")>>)

params_attr(dict_df) ==
    LET keys == Keys(dict_df) IN [k \in 1..Len(keys) |-> PyStr(keys[k])]

\* load_config_yaml: False when the document is absent
load_config_yaml(self) ==
    IF self.config_file.exists THEN Val(self.config_file.doc) ELSE PyFalse

\* a test that takes whatever was loaded, False included, as a schema
Truthy_Always(attr) == attr.kind \in {"value", "False"}

\* if config_yaml: ... (False, and an empty document, are falsy)
Truthy(attr) == attr.kind = "value" /\ DOMAIN attr.val # {}

\* __get_params: sets sets_list, params_list and config_yaml on the way
get_params(self, df) ==
    LET dict_df == GroupByParameter(df)
        sets == sets_attr(self, dict_df)
        self1 == [self EXCEPT !.sets_list = Val(sets.val)]
        self2 == [self1 EXCEPT !.params_list = Val(params_attr(dict_df))]
        loaded == load_config_yaml(self)
    IN  IF sets.exc # "none" THEN [self |-> self, exc |-> sets.exc, val |-> <<>>]
        ELSE IF Truthy(loaded)
        THEN [self |-> [self2 EXCEPT !.config_yaml = loaded],
              exc |-> "none", val |-> dict_df]
        ELSE [self |-> self2, exc |-> "FileNotFoundError", val |-> <<>>]

ExplicitSets == {"TECHNOLOGY", "FUEL", "EMISSION", "REGION"}

\* __set_sand_data: the four explicit sets, then every parameter table
set_sand_data(sets, param_dict) ==
    [key \in ExplicitSets \cup DOMAIN param_dict |->
        IF key \in DOMAIN param_dict THEN param_dict[key]
        ELSE IF key = "TECHNOLOGY" THEN sets.tech
        ELSE IF key = "FUEL" THEN sets.fuel
        ELSE IF key = "EMISSION" THEN sets.emission
        ELSE sets.region]

read_input_data(self) ==
    LET sets == get_sets(self.workbook.sets)
        df_params == [columns |-> RenameColumns(self.workbook.columns),
                      rows |-> self.workbook.rows]
        params == get_params(self, df_params)
    IN  IF sets.exc # "none" THEN [self |-> self, exc |-> sets.exc]
        ELSE IF params.exc # "none" THEN [self |-> params.self, exc |-> params.exc]
        ELSE [self |-> [params.self EXCEPT
                            !.input_sand = Val(set_sand_data(sets.val, params.val))],
              exc |-> "none"]

-----------------------------------------------------------------------------
(* Schema queries.  A schema is a dict from field name to its features     *)
(* [type, dtype] with "indices" (a list of str) for a param or a result    *)
(* and, where the document gives one, "short_name".                        *)

\* set_label in feature["indices"], set_label a scalar
InIndices(set_label, feature) ==
    IsStr(set_label) /\ set_label.str \in Range(feature.indices)

\* variables_i that never looks at the results
variables_i_ParamsOnly(config_data, set_label, result) ==
    SelectSeq(Keys(config_data),
              LAMBDA param : /\ config_data[param].type = "param"
                             /\ InIndices(set_label, config_data[param]))

variables_i(config_data, set_label, result) ==
    LET filter_type == IF result THEN {"param", "result"} ELSE {"param"}
    IN  SelectSeq(Keys(config_data),
                  LAMBDA param : /\ config_data[param].type \in filter_type
                                 /\ InIndices(set_label, config_data[param]))

\* field_type_filter that matches no type
field_type_filter_NoMatch(config_data, field) ==
    [v \in {var \in DOMAIN config_data : config_data[var].type = "results"} |->
        config_data[v]]

field_type_filter(config_data, field) ==
    [v \in {var \in DOMAIN config_data : config_data[var].type = field} |->
        config_data[v]]

\* rm_vars += variables_i(config_yaml, rm_set) over the removable sets from
\* the k-th on
RECURSIVE RmVars(_, _, _)
RmVars(config, rm_sets, k) ==
    IF k > Len(rm_sets) THEN <<>>
    ELSE variables_i(config, PyStr(rm_sets[k]), TRUE)
            \o RmVars(config, rm_sets, k + 1)

\* NotRequired that looks at the sets only
NotRequired_SetsOnly(config, fields_list, ft) ==
    /\ config[ft].type = "set"
    /\ ~StrIn(ft, fields_list)

\* whether non_required_fields puts the field ft into rm_fields
NotRequired(config, fields_list, ft) ==
    /\ config[ft].type \in {"set", "param"}
    /\ ~StrIn(ft, fields_list)

\* non_required_fields: False when an attribute is missing, else the list
non_required_fields(self) ==
    IF self.config_yaml.kind = "unset" THEN PyFalse
    ELSE IF self.sets_list.kind = "unset" \/ self.params_list.kind = "unset"
    THEN PyFalse
    ELSE LET config == self.config_yaml.val
             fields_list == self.sets_list.val \o self.params_list.val
             rm_fields == SelectSeq(Keys(config),
                              LAMBDA ft : NotRequired(config, fields_list, ft))
             rm_sets == SelectSeq(rm_fields,
                              LAMBDA ft : config[ft].type = "set")
             rm_vars == RmVars(config, rm_sets, 1)
         IN  Val(rm_vars \o rm_fields)

\* KeptFields that never drops a set
KeptFields_KeepSets(config, rm_fields) ==
    {var \in DOMAIN config :
        var \notin Range(rm_fields) \/ config[var].type = "set"}

\* the fields __rm_non_fields keeps
KeptFields(config, rm_fields) ==
    {var \in DOMAIN config : var \notin Range(rm_fields)}

\* __rm_non_fields: False when config_yaml is missing.  With config_yaml
\* set and non_required_fields() False, iterating rm_fields raises.
rm_non_fields(self) ==
    LET rm_fields == non_required_fields(self)
    IN  IF self.config_yaml.kind = "unset" THEN Return(PyFalse)
        ELSE IF rm_fields.kind = "False"
        THEN Raise("TypeError")
        ELSE LET config == self.config_yaml.val
             IN  Return(Val([var \in KeptFields(config, rm_fields.val) |->
                              config[var]]))

write_sand_config_file(self) ==
    LET sand == rm_non_fields(self)
    IN  IF sand.exc # "none" THEN [self |-> self, exc |-> sand.exc]
        ELSE [self |-> [self EXCEPT !.sand_yaml = sand.val,
                                    !.sand_config_file = sand.val],
              exc |-> "none"]

-----------------------------------------------------------------------------
(* Implicit sets *)

ignore_cols == {PyStr("VALUE"), PyStr("YEAR"), PyStr("REGIONR")}

\* a membership test that finds no key in the dict
NotAKey_Always(s, input_data) == s = s /\ input_data = input_data

\* s not in input_data, s a scalar and input_data a dict with str keys
NotAKey(s, input_data) == ~(IsStr(s) /\ s.str \in DOMAIN input_data)

\* a get_implicit_sets that returns an empty list when an attribute is
\* missing
get_implicit_sets_Lenient(self) ==
    IF self.sets_list.kind = "unset" \/ self.input_sand.kind = "unset"
    THEN Return(<<>>)
    ELSE Return(SelectSeq(self.sets_list.val,
                    LAMBDA x : x \notin ignore_cols
                               /\ NotAKey(x, self.input_sand.val)))

\* get_implicit_sets: a missing attribute is printed, and the local name it
\* was to bind is unbound where the loop first reads it
get_implicit_sets(self) ==
    IF self.sets_list.kind = "unset" THEN Raise("UnboundLocalError")
    ELSE LET sets == self.sets_list.val
             probed == SelectSeq(sets, LAMBDA x : x \notin ignore_cols)
         IN  IF self.input_sand.kind = "unset"
             THEN IF probed = <<>> THEN Return(<<>>)
                  ELSE Raise("UnboundLocalError")
             ELSE Return(SelectSeq(probed,
                            LAMBDA x : NotAKey(x, self.input_sand.val)))

\* d_param += variables_i(config_data, imp) over the implicit sets from the
\* k-th on
RECURSIVE DependentParams(_, _, _)
DependentParams(config, implicit_sets, k) ==
    IF k > Len(implicit_sets) THEN <<>>
    ELSE variables_i(config, implicit_sets[k], TRUE)
            \o DependentParams(config, implicit_sets, k + 1)

\* the loops of param_sets_dependency over odd_params[k..], param_set_dict
\* being the dict built so far
RECURSIVE DependencyLoop(_, _, _, _, _)
DependencyLoop(config_data, odd_params, odd_sets, k, param_set_dict) ==
    IF k > Len(odd_params) THEN Return(param_set_dict)
    ELSE LET p == odd_params[k]
         IN  IF p \notin DOMAIN config_data THEN Raise("KeyError")
             ELSE LET found == SelectSeq(odd_sets,
                                 LAMBDA odd : InIndices(odd, config_data[p]))
                      before == IF p \in DOMAIN param_set_dict
                                THEN param_set_dict[p] ELSE <<>>
                      next == IF found = <<>> THEN param_set_dict
                              ELSE [q \in DOMAIN param_set_dict \cup {p} |->
                                      IF q = p THEN before \o found
                                      ELSE param_set_dict[q]]
                  IN  DependencyLoop(config_data, odd_params, odd_sets,
                                     k + 1, next)

\* param_sets_dependency reads sand_yaml once the attribute exists
param_sets_dependency(self, odd_params, odd_sets) ==
    LET config_data == IF self.sand_yaml.kind # "unset" THEN self.sand_yaml
                       ELSE self.config_yaml
    IN  IF odd_params = <<>> THEN Return(<<>>)
        ELSE IF config_data.kind = "False" THEN Raise("TypeError")
        ELSE DependencyLoop(config_data.val, odd_params, odd_sets, 1, <<>>)

processes_implicit_sets(self) ==
    IF self.config_yaml.kind = "unset" THEN Raise("AttributeError")
    ELSE LET config_data == self.config_yaml.val
             implicit == get_implicit_sets(self)
         IN  IF implicit.exc # "none" THEN implicit
             ELSE LET all == DependentParams(config_data, implicit.val, 1)
                      result_types == field_type_filter(config_data, "result")
                      inputs == Without(all, DOMAIN result_types)
                      rm_fields == non_required_fields(self)
                  IN  IF inputs # <<>> /\ rm_fields.kind = "False"
                      THEN Raise("TypeError")
                      ELSE param_sets_dependency(self,
                              Without(inputs, Range(rm_fields.val)),
                              implicit.val)

-----------------------------------------------------------------------------
(* set_input_data *)

\* the str values of the model in the order Python compares them
StrOrder == <<"1", "2", "3", "4", "D1", "D2", "D3", "D4">>

\* a < b for two scalars of one type
PyLess(a, b) ==
    IF IsInt(a) THEN a.int < b.int
    ELSE (CHOOSE k \in 1..Len(StrOrder) : StrOrder[k] = a.str)
            < (CHOOSE k \in 1..Len(StrOrder) : StrOrder[k] = b.str)

\* whether list.sort() can compare all the values
Comparable(vals) ==
    \/ \A v \in vals : IsInt(v)
    \/ \A v \in vals : IsStr(v)

\* Sorted that puts the greatest value first
RECURSIVE Sorted_Descending(_)
Sorted_Descending(vals) ==
    IF vals = {} THEN <<>>
    ELSE LET most == CHOOSE v \in vals : \A w \in vals \ {v} : PyLess(w, v)
         IN  <<most>> \o Sorted_Descending(vals \ {most})

\* vals.sort() on the values of a set
RECURSIVE Sorted(_)
Sorted(vals) ==
    IF vals = {} THEN <<>>
    ELSE LET least == CHOOSE v \in vals : \A w \in vals \ {v} : PyLess(v, w)
         IN  <<least>> \o Sorted(vals \ {least})

\* str(n) for the codes of the model
Decimal(n) == <<"1", "2", "3", "4">>[n]

\* pd.Series(vals, dtype=dtype) for the dtypes a schema gives a set
Series(vals, dtype) ==
    IF dtype = "int"
    THEN IF \A k \in 1..Len(vals) : IsInt(vals[k]) THEN Return(vals)
         ELSE Raise("ValueError")
    ELSE Return([k \in 1..Len(vals) |->
                    IF IsInt(vals[k]) THEN PyStr(Decimal(vals[k].int))
                    ELSE vals[k]])

\* list(df[label]): the column of a table, -1 standing for none
Column(df, label) ==
    LET at == get_loc(df.columns, label)
    IN  [k \in 1..Len(df.rows) |-> df.rows[k][at + 1]]

\* vals += list(df[imp_ind]) over the dependent parameters from the k-th on
RECURSIVE CollectVals(_, _, _, _)
CollectVals(input_data, d_params, imp_ind, k) ==
    IF k > Len(d_params) THEN Return(<<>>)
    ELSE LET dp == d_params[k]
         IN  IF dp \notin DOMAIN input_data THEN Raise("KeyError")
             ELSE IF get_loc(input_data[dp].columns, imp_ind) = -1
             THEN Raise("KeyError")
             ELSE LET rest == CollectVals(input_data, d_params, imp_ind, k + 1)
                  IN  IF rest.exc # "none" THEN rest
                      ELSE Return(Column(input_data[dp], imp_ind) \o rest.val)

\* the body of the loop of set_input_data for one implicit set
ImplicitSet(config, input_data, param_set_dict, imp_ind) ==
    LET d_params == SelectSeq(Keys(param_set_dict),
                        LAMBDA param : imp_ind \in Range(param_set_dict[param]))
        vals == CollectVals(input_data, d_params, imp_ind, 1)
    IN  IF vals.exc # "none" THEN vals
        ELSE IF ~Comparable(Range(vals.val)) THEN Raise("TypeError")
        ELSE IF ~(IsStr(imp_ind) /\ imp_ind.str \in DOMAIN config)
        THEN Raise("KeyError")
        ELSE Series(Sorted(Range(vals.val)), config[imp_ind.str].dtype)

\* the loop of set_input_data over imp_sets[k..]; input_data is the dict
\* self.input_sand names, so what the loop has stored stays when it raises
RECURSIVE ImplicitLoop(_, _, _, _, _)
ImplicitLoop(config, input_data, param_set_dict, imp_sets, k) ==
    IF k > Len(imp_sets) THEN [input_data |-> input_data, exc |-> "none"]
    ELSE LET made == ImplicitSet(config, input_data, param_set_dict, imp_sets[k])
         IN  IF made.exc # "none"
             THEN [input_data |-> input_data, exc |-> made.exc]
             ELSE ImplicitLoop(config,
                      [key \in DOMAIN input_data \cup {imp_sets[k].str} |->
                          IF key = imp_sets[k].str THEN made.val
                          ELSE input_data[key]],
                      param_set_dict, imp_sets, k + 1)

\* range that takes its stop as inclusive
range_Inclusive(year_i, year_j) ==
    [k \in 1..(IF year_j >= year_i THEN year_j - year_i + 1 ELSE 0) |->
        PyInt(year_i + k - 1)]

\* range(year_i, year_j)
range(year_i, year_j) ==
    [k \in 1..(IF year_j > year_i THEN year_j - year_i ELSE 0) |->
        PyInt(year_i + k - 1)]

set_input_data(self) ==
    LET read == read_input_data(self)
        param_set_dict == processes_implicit_sets(read.self)
        imp_sets == get_implicit_sets(read.self)
        loop == ImplicitLoop(read.self.config_yaml.val, read.self.input_sand.val,
                             param_set_dict.val, imp_sets.val, 1)
        years_str == range(self.from_year, self.to_year + 1)
    IN  IF read.exc # "none" THEN read
        ELSE IF param_set_dict.exc # "none"
        THEN [self |-> read.self, exc |-> param_set_dict.exc]
        ELSE IF loop.exc # "none"
        THEN [self |-> [read.self EXCEPT !.input_sand = Val(loop.input_data)],
              exc |-> loop.exc]
        ELSE [self |-> [read.self EXCEPT !.input_sand =
                  Val([key \in DOMAIN loop.input_data \cup {"YEAR"} |->
                          IF key = "YEAR" THEN years_str
                          ELSE loop.input_data[key]])],
              exc |-> "none"]

-----------------------------------------------------------------------------
(* Otoole_Interface.  The object is [kind |-> "none"] before construction, *)
(* then [kind |-> "object", sand_yaml, full_names, input_otoole].          *)

NoObject ==
    [kind |-> "none", sand_yaml |-> Unset, full_names |-> Unset,
     input_otoole |-> Unset]

\* __init__ with the sand_config property: the document must exist
Otoole_Interface(file) ==
    IF file.kind = "unset" THEN Raise("FileNotFoundError")
    ELSE Return([kind |-> "object", sand_yaml |-> file, full_names |-> Unset,
                 input_otoole |-> Unset])

\* the key set_full_names stores the field under
AliasKey(field, fts) ==
    IF "short_name" \in DOMAIN fts THEN fts.short_name ELSE field

\* the loop of set_full_names over fields[k..], full_names being the dict
\* built so far
RECURSIVE FullNamesLoop(_, _, _, _)
FullNamesLoop(schema, fields, k, full_names) ==
    IF k > Len(fields) THEN full_names
    ELSE LET key == AliasKey(fields[k], schema[fields[k]])
         IN  FullNamesLoop(schema, fields, k + 1,
                [a \in DOMAIN full_names \cup {key} |->
                    IF a = key THEN fields[k] ELSE full_names[a]])

set_full_names(obj) ==
    IF obj.sand_yaml.kind = "False" THEN [obj |-> obj, exc |-> "AttributeError"]
    ELSE LET schema == obj.sand_yaml.val
             full_names == FullNamesLoop(schema, Keys(schema), 1, <<>>)
         IN  [obj |-> [obj EXCEPT !.full_names = Val(full_names)],
              exc |-> "none", val |-> full_names]

\* {f: s for s, f in full_names.items()}
Inverted(full_names) ==
    [f \in {full_names[a] : a \in DOMAIN full_names} |->
        CHOOSE a \in DOMAIN full_names : full_names[a] = f]

set_short_names(obj) ==
    LET made == IF obj.full_names.kind # "unset"
                THEN [obj |-> obj, exc |-> "none", val |-> obj.full_names.val]
                ELSE set_full_names(obj)
    IN  IF made.exc # "none" THEN made
        ELSE [obj |-> made.obj, exc |-> "none", val |-> Inverted(made.val)]

(* The otoole workbook is the list of its sheets, [name, df], in sheet     *)
(* order; dict_df is the list of [field, df] in insertion order.           *)

\* dict_df with df stored under field: a new key goes last, a key already
\* there keeps its place
Stored(dict_df, field, df) ==
    IF \E k \in 1..Len(dict_df) : dict_df[k].field = field
    THEN [k \in 1..Len(dict_df) |->
            IF dict_df[k].field = field THEN [field |-> field, df |-> df]
            ELSE dict_df[k]]
    ELSE Append(dict_df, [field |-> field, df |-> df])

\* {full_key_mapping[var]: df for var, df in dict_df.items()} from the k-th
\* sheet on
RECURSIVE RenameKeys(_, _, _, _)
RenameKeys(file, full_key_mapping, k, dict_df) ==
    IF k > Len(file) THEN Return(dict_df)
    ELSE IF file[k].name \notin DOMAIN full_key_mapping THEN Raise("KeyError")
    ELSE RenameKeys(file, full_key_mapping, k + 1,
                    Stored(dict_df, full_key_mapping[file[k].name], file[k].df))

\* read_excel_data: sets full_names on the way
read_excel_data(obj, file) ==
    LET named == set_full_names(obj)
    IN  IF named.exc # "none" THEN [obj |-> obj, exc |-> named.exc, val |-> <<>>]
        ELSE LET renamed == RenameKeys(file, named.val, 1, <<>>)
             IN  [obj |-> named.obj, exc |-> renamed.exc, val |-> renamed.val]

\* a lookup that gives an empty Series for a key the dict does not hold
getitem_Default(input_data, field) ==
    IF field \in DOMAIN input_data THEN Return(input_data[field])
    ELSE Return(<<>>)

\* input_data[field]
getitem(input_data, field) ==
    IF field \in DOMAIN input_data THEN Return(input_data[field])
    ELSE Raise("KeyError")

\* df["VALUE"] = data_df, data_df a Series: the values are aligned on the
\* row index of df; a df without rows takes the index of the Series
AssignValue(df, data_df) ==
    LET has == PyStr("VALUE") \in Range(df.columns)
        cols == IF has THEN df.columns ELSE Append(df.columns, PyStr("VALUE"))
        v == get_loc(cols, PyStr("VALUE")) + 1
        n == IF df.rows = <<>> THEN Len(data_df) ELSE Len(df.rows)
    IN  [columns |-> cols,
         rows |-> [k \in 1..n |-> [j \in 1..Len(cols) |->
                    IF j = v
                    THEN (IF k <= Len(data_df) THEN data_df[k] ELSE PyNaN)
                    ELSE IF df.rows = <<>> THEN PyNaN ELSE df.rows[k][j]]]]

\* a retrieval that keeps the rows the sheet held and adds the data to them
Retrieve_Merged(df, data_df) ==
    IF \E j \in 1..Len(df.columns) : df.columns[j] \notin Range(data_df.columns)
    THEN Raise("KeyError")
    ELSE Return([columns |-> df.columns,
                 rows |-> df.rows \o
                    [k \in 1..Len(data_df.rows) |->
                        [j \in 1..Len(df.columns) |->
                            data_df.rows[k][get_loc(data_df.columns,
                                                    df.columns[j]) + 1]]]])

\* cols = df.columns; data_df[cols]
Retrieve(df, data_df) ==
    IF \E j \in 1..Len(df.columns) : df.columns[j] \notin Range(data_df.columns)
    THEN Raise("KeyError")
    ELSE Return([columns |-> df.columns,
                 rows |-> [k \in 1..Len(data_df.rows) |->
                            [j \in 1..Len(df.columns) |->
                                data_df.rows[k][get_loc(data_df.columns,
                                                        df.columns[j]) + 1]]]])

\* the loop of populate_template over dict_df[k..]
RECURSIVE PopulateLoop(_, _, _, _, _)
PopulateLoop(dict_df, input_data, sets, params, k) ==
    IF k > Len(dict_df) THEN Return(dict_df)
    ELSE LET field == dict_df[k].field
             df == dict_df[k].df
             data_df == getitem(input_data, field)
         IN  IF data_df.exc # "none" THEN data_df
             ELSE IF StrIn(field, sets)
             THEN PopulateLoop(Stored(dict_df, field, AssignValue(df, data_df.val)),
                               input_data, sets, params, k + 1)
             ELSE IF StrIn(field, params)
             THEN LET got == Retrieve(df, data_df.val)
                  IN  IF got.exc # "none" THEN got
                      ELSE PopulateLoop(Stored(dict_df, field, got.val),
                                        input_data, sets, params, k + 1)
             ELSE PopulateLoop(dict_df, input_data, sets, params, k + 1)

\* where each field of dict_df is
Position(dict_df) ==
    [field \in {dict_df[k].field : k \in 1..Len(dict_df)} |->
        (CHOOSE k \in 1..Len(dict_df) : dict_df[k].field = field)]

\* populate_template: input_otoole is set only at the end
populate_template(obj, file, sand_data) ==
    LET read == read_excel_data(obj, file)
    IN  IF read.exc # "none" THEN [obj |-> read.obj, exc |-> read.exc]
        ELSE IF \/ sand_data.input_sand.kind = "unset"
                \/ sand_data.sets_list.kind = "unset"
                \/ sand_data.params_list.kind = "unset"
        THEN [obj |-> read.obj, exc |-> "AttributeError"]
        ELSE LET done == PopulateLoop(read.val, sand_data.input_sand.val,
                                      sand_data.sets_list.val,
                                      sand_data.params_list.val, 1)
             IN  IF done.exc # "none" THEN [obj |-> read.obj, exc |-> done.exc]
                 ELSE [obj |-> [read.obj EXCEPT !.input_otoole =
                                    Val([f \in DOMAIN Position(done.val) |->
                                            done.val[Position(done.val)[f]].df])],
                       exc |-> "none"]

-----------------------------------------------------------------------------
(* The environments the model draws from: schema documents and workbooks. *)

StrSeq(names) == [k \in 1..Len(names) |-> PyStr(names[k])]

SetFeature(dtype) == [type |-> "set", dtype |-> dtype]
ParamFeature(indices) == [type |-> "param", dtype |-> "float", indices |-> indices]
ResultFeature(indices) == [type |-> "result", dtype |-> "float", indices |-> indices]

\* an excerpt of the config.yaml otoole generates
BaseSchema ==
    [field \in {"REGION", "TECHNOLOGY", "MODE_OF_OPERATION", "STORAGE", "YEAR",
                "CapacityToActivityUnit", "VariableCost", "TechnologyToStorage",
                "RateOfActivity"} |->
        CASE field = "REGION" -> SetFeature("str")
          [] field = "TECHNOLOGY" -> SetFeature("str")
          [] field = "MODE_OF_OPERATION" -> SetFeature("int")
          [] field = "STORAGE" -> SetFeature("str")
          [] field = "YEAR" -> SetFeature("int")
          [] field = "CapacityToActivityUnit" ->
                ParamFeature(<<"REGION", "TECHNOLOGY">>)
          [] field = "VariableCost" ->
                ParamFeature(<<"REGION", "TECHNOLOGY", "MODE_OF_OPERATION", "YEAR">>)
          [] field = "TechnologyToStorage" ->
                ParamFeature(<<"REGION", "TECHNOLOGY", "STORAGE",
                               "MODE_OF_OPERATION">>)
          [] OTHER ->
                ResultFeature(<<"REGION", "TECHNOLOGY", "MODE_OF_OPERATION",
                                "YEAR">>)]

Document(schema) == [exists |-> TRUE, doc |-> schema]
NoDocument == [exists |-> FALSE, doc |-> <<>>]

\* the SETS sheet of the clicSAND template, cut down
BaseSets ==
    [Technologies |-> <<PyStr("Code"), PyStr("T1"), PyNaN>>,
     Commodities |-> <<PyStr("Code"), PyStr("F1")>>,
     Emissions |-> <<PyStr("Code"), PyStr("CO2"), PyNaN, PyStr("Region"),
                     PyStr("RE1"), PyStr("C:/ResultsPath/")>>]

\* the year columns of a Parameters sheet whose first year is first
YearColumnsFrom(first) ==
    SubSeq(YearLabels, first - FirstYear + 1, first - FirstYear + 1 + MaxYears)

\* the header of a Parameters sheet with the given columns for implicit
\* sets and the given first year
HeaderFrom(implicit, first) ==
    <<"REGION", "TECHNOLOGY">> \o implicit
        \o <<"REGION2", "Time indipendent variables">> \o YearColumnsFrom(first)

Header(implicit) == HeaderFrom(implicit, FirstYear)

\* the cell of a row under one column; code is the row's code in every
\* column of an implicit set
Cell(col, code) ==
    CASE col = "REGION" -> PyStr("RE1")
      [] col = "TECHNOLOGY" -> PyStr("T1")
      [] col = "MODE_OF_OPERATION" -> PyInt(code)
      [] col \in {"STORAGE", "TIMESLICE"} -> PyStr(StrOrder[4 + code])
      [] col = "REGION2" -> PyNaN
      [] OTHER -> PyInt(0)

Row(columns, param, code) ==
    [Parameter |-> param,
     cells |-> [k \in 1..Len(columns) |-> Cell(columns[k], code)]]

\* the rows of a sheet from a list of <<parameter, code>>
Rows(columns, entries) ==
    [k \in 1..Len(entries) |-> Row(columns, entries[k][1], entries[k][2])]

Workbook(sets, columns, entries) ==
    [sets |-> sets, columns |-> columns, rows |-> Rows(columns, entries)]

BaseHeader == Header(<<"MODE_OF_OPERATION">>)

BaseEntries ==
    << <<"CapacityToActivityUnit", 1>>, <<"VariableCost", 2>>,
       <<"VariableCost", 1>> >>

BaseWorkbook == Workbook(BaseSets, BaseHeader, BaseEntries)

\* a workbook whose year columns start one year later
LateWorkbook ==
    Workbook(BaseSets, HeaderFrom(<<"MODE_OF_OPERATION">>, FirstYear + 1),
             BaseEntries)

\* sequences over a set, of length 0..n
SeqsUpTo(S, n) == UNION {[1..k -> S] : k \in 0..n}

\* what a free row of the Parameters sheet may hold
RowOptions == {"VariableCost", "TechnologyToStorage"} \X (1..MaxCode)

WideHeader == Header(<<"MODE_OF_OPERATION", "STORAGE">>)

\* workbooks that differ in the rows of the Parameters sheet
RowWorkbooks ==
    {Workbook(BaseSets, WideHeader, <<<<"CapacityToActivityUnit", 1>>>> \o e) :
        e \in SeqsUpTo(RowOptions, MaxParamRows)}

\* workbooks that differ in the header of the Parameters sheet, one of them
\* without any row
HeaderWorkbooks ==
    {Workbook(BaseSets, Header(implicit), BaseEntries) :
        implicit \in {<<>>, <<"MODE_OF_OPERATION", "STORAGE", "TIMESLICE">>}}
    \cup {Workbook(BaseSets, BaseHeader, <<>>)}

\* schema documents beside the base one: none, an empty one, one that
\* types MODE_OF_OPERATION as str
OtherDocuments ==
    {NoDocument, Document(<<>>),
     Document([BaseSchema EXCEPT !["MODE_OF_OPERATION"] = SetFeature("str")])}

Years == (FirstYear - 1)..(FirstYear + MaxYears)

\* a sheet of the otoole workbook
Sheet(name, columns, rows) ==
    [name |-> name, df |-> [columns |-> columns, rows |-> rows]]

\* the empty sheet of a set
SetSheet(name) == Sheet(name, <<PyStr("VALUE")>>, <<>>)

\* an otoole workbook with the sheets of two sets
BaseTemplate == <<SetSheet("REGION"), SetSheet("TECHNOLOGY")>>

Environment(doc, wb, from, to) ==
    [config_file |-> doc, workbook |-> wb, from_year |-> from, to_year |-> to,
     template |-> BaseTemplate]

PipelineEnvironments ==
    {Environment(Document(BaseSchema), wb, FirstYear, FirstYear + 1) :
        wb \in RowWorkbooks \cup HeaderWorkbooks}
    \cup {Environment(doc, BaseWorkbook, FirstYear, FirstYear + 1) :
            doc \in OtherDocuments}
    \cup {Environment(Document(BaseSchema), BaseWorkbook, from, to) :
            from \in Years, to \in Years}
    \cup {Environment(Document(BaseSchema), LateWorkbook, FirstYear + 1, to) :
            to \in Years}

\* the index lists a schema of SchemaFamily may give a field: REGION, then
\* any of the two sets a workbook may leave out
IndexChoices ==
    {<<"REGION">> \o rest :
        rest \in {<<>>, <<"MODE_OF_OPERATION">>, <<"STORAGE">>,
                  <<"MODE_OF_OPERATION", "STORAGE">>}}

\* the schema with the given index lists (<<>>: the field is not declared)
\* and with or without a declaration of STORAGE
SchemaWith(vc, tts, roa, storage) ==
    LET absent == (IF vc = <<>> THEN {"VariableCost"} ELSE {})
                  \cup (IF tts = <<>> THEN {"TechnologyToStorage"} ELSE {})
                  \cup (IF roa = <<>> THEN {"RateOfActivity"} ELSE {})
                  \cup (IF storage THEN {} ELSE {"STORAGE"})
    IN  [field \in DOMAIN BaseSchema \ absent |->
            CASE field = "VariableCost" -> ParamFeature(vc)
              [] field = "TechnologyToStorage" -> ParamFeature(tts)
              [] field = "RateOfActivity" -> ResultFeature(roa)
              [] OTHER -> BaseSchema[field]]

SchemaFamily ==
    {SchemaWith(vc, tts, roa, storage) :
        vc \in IndexChoices \cup {<<>>}, tts \in IndexChoices \cup {<<>>},
        roa \in IndexChoices \cup {<<>>}, storage \in BOOLEAN}

\* workbooks that differ in the columns and in the parameters they hold
RosterWorkbooks ==
    {Workbook(BaseSets, Header(implicit),
              <<<<"CapacityToActivityUnit", 1>>>> \o entries) :
        implicit \in {<<>>, <<"MODE_OF_OPERATION">>, <<"STORAGE">>,
                      <<"MODE_OF_OPERATION", "STORAGE">>},
        entries \in {<<>>, <<<<"VariableCost", 1>>>>,
                     <<<<"TechnologyToStorage", 2>>>>,
                     <<<<"TechnologyToStorage", 2>>, <<"VariableCost", 1>>>>}}

SchemaEnvironments ==
    {Environment(Document(schema), wb, FirstYear, FirstYear + 1) :
        schema \in SchemaFamily, wb \in RosterWorkbooks}

\* the short names a schema of AliasFamily may give a field ("": none)
ShortNames == {"", "VarCost", "TechToStorage", "RateOfActivity"}

\* the features of a field with the short name added, if one is given
WithShortName(fts, short) ==
    IF short = "" THEN fts
    ELSE [key \in DOMAIN fts \cup {"short_name"} |->
            IF key = "short_name" THEN short ELSE fts[key]]

\* schemas that differ in the short names of three fields
AliasFamily ==
    {[BaseSchema EXCEPT
        !["VariableCost"] = WithShortName(@, vc),
        !["TechnologyToStorage"] = WithShortName(@, tts),
        !["RateOfActivity"] = WithShortName(@, roa)] :
        vc \in ShortNames, tts \in ShortNames, roa \in ShortNames}

\* a workbook that holds every parameter and every set of BaseSchema
FullWorkbook ==
    Workbook(BaseSets, WideHeader,
             << <<"CapacityToActivityUnit", 1>>, <<"TechnologyToStorage", 1>>,
                <<"VariableCost", 2>> >>)

AliasEnvironments ==
    {Environment(Document(schema), wb, FirstYear, FirstYear + 1) :
        schema \in AliasFamily, wb \in {FullWorkbook, BaseWorkbook}}

\* the cells a row of the Emissions column may hold
EmissionCells ==
    {PyStr("CO2"), PyStr("RE1"), PyStr("Region"), PyStr("C:/ResultsPath/"),
     PyStr("Code"), PyNaN}

\* workbooks that differ in the Emissions column of the SETS sheet
SetsEnvironments ==
    {Environment(Document(BaseSchema),
                 Workbook([BaseSets EXCEPT !.Emissions = col],
                          BaseHeader, BaseEntries),
                 FirstYear, FirstYear + 1) :
        col \in SeqsUpTo(EmissionCells, MaxSetRows)}

-----------------------------------------------------------------------------
(* The state machine *)

Self ==
    [config_file |-> config_file, workbook |-> workbook,
     from_year |-> from_year, to_year |-> to_year,
     sets_list |-> sets_list, params_list |-> params_list,
     config_yaml |-> config_yaml, input_sand |-> input_sand,
     sand_yaml |-> sand_yaml, sand_config_file |-> sand_config_file]

Call(op, exc, val) == [op |-> op, exc |-> exc, val |-> val]

\* a Sand_Interface just constructed over the environment e, and no
\* Otoole_Interface yet
Constructed(e) ==
    /\ config_file = e.config_file
    /\ workbook = e.workbook
    /\ from_year = e.from_year
    /\ to_year = e.to_year
    /\ template = e.template
    /\ sets_list = Unset
    /\ params_list = Unset
    /\ config_yaml = Unset
    /\ input_sand = Unset
    /\ sand_yaml = Unset
    /\ sand_config_file = Unset
    /\ otoole = NoObject
    /\ last = Call("__init__", "none", <<>>)

\* the attributes and files after a method of Sand_Interface
Becomes(self) ==
    /\ sets_list' = self.sets_list
    /\ params_list' = self.params_list
    /\ config_yaml' = self.config_yaml
    /\ input_sand' = self.input_sand
    /\ sand_yaml' = self.sand_yaml
    /\ sand_config_file' = self.sand_config_file
    /\ UNCHANGED <<env, otoole>>

ReadInputData ==
    LET done == read_input_data(Self)
    IN  /\ Becomes(done.self)
        /\ last' = Call("read_input_data", done.exc, <<>>)

SetInputData ==
    LET done == set_input_data(Self)
    IN  /\ Becomes(done.self)
        /\ last' = Call("set_input_data", done.exc, <<>>)

WriteSandConfigFile ==
    LET done == write_sand_config_file(Self)
    IN  /\ Becomes(done.self)
        /\ last' = Call("write_sand_config_file", done.exc, <<>>)

NewOtooleInterface ==
    LET made == Otoole_Interface(sand_config_file)
    IN  /\ otoole' = IF made.exc = "none" THEN made.val ELSE otoole
        /\ last' = Call("Otoole_Interface", made.exc, <<>>)
        /\ UNCHANGED <<env, sets_list, params_list, config_yaml, input_sand,
                       sand_yaml, sand_config_file>>

SetFullNames ==
    /\ otoole.kind = "object"
    /\ LET done == set_full_names(otoole)
       IN  /\ otoole' = done.obj
           /\ last' = Call("set_full_names", done.exc,
                           IF done.exc = "none" THEN done.val ELSE <<>>)
    /\ UNCHANGED <<env, sets_list, params_list, config_yaml, input_sand,
                   sand_yaml, sand_config_file>>

SetShortNames ==
    /\ otoole.kind = "object"
    /\ LET done == set_short_names(otoole)
       IN  /\ otoole' = done.obj
           /\ last' = Call("set_short_names", done.exc,
                           IF done.exc = "none" THEN done.val ELSE <<>>)
    /\ UNCHANGED <<env, sets_list, params_list, config_yaml, input_sand,
                   sand_yaml, sand_config_file>>

PopulateTemplate ==
    /\ otoole.kind = "object"
    /\ LET done == populate_template(otoole, template, Self)
       IN  /\ otoole' = done.obj
           /\ last' = Call("populate_template", done.exc, <<>>)
    /\ UNCHANGED <<env, sets_list, params_list, config_yaml, input_sand,
                   sand_yaml, sand_config_file>>

\* the three queries of Sand_Interface; they change no attribute
GetImplicitSets ==
    LET done == get_implicit_sets(Self)
    IN  /\ last' = Call("get_implicit_sets", done.exc,
                        IF done.exc = "none" THEN done.val ELSE <<>>)
        /\ UNCHANGED <<env, sets_list, params_list, config_yaml, input_sand,
                       sand_yaml, sand_config_file, otoole>>

NonRequiredFields ==
    LET done == non_required_fields(Self)
    IN  /\ last' = Call("non_required_fields", "none", done)
        /\ UNCHANGED <<env, sets_list, params_list, config_yaml, input_sand,
                       sand_yaml, sand_config_file, otoole>>

ProcessesImplicitSets ==
    LET done == processes_implicit_sets(Self)
    IN  /\ last' = Call("processes_implicit_sets", done.exc,
                        IF done.exc = "none" THEN done.val ELSE <<>>)
        /\ UNCHANGED <<env, sets_list, params_list, config_yaml, input_sand,
                       sand_yaml, sand_config_file, otoole>>

Init == \E e \in PipelineEnvironments : Constructed(e)

NextSand == ReadInputData \/ SetInputData \/ WriteSandConfigFile

Next ==
    \/ ReadInputData
    \/ SetInputData
    \/ WriteSandConfigFile
    \/ NewOtooleInterface
    \/ SetFullNames
    \/ SetShortNames

Spec == Init /\ [][Next]_vars

\* the reader over every Emissions column of the SETS sheet
InitSets == \E e \in SetsEnvironments : Constructed(e)

SpecSets == InitSets /\ [][NextSand]_vars

\* the reader and the pruner over every schema of SchemaFamily and every
\* roster of RosterWorkbooks
InitSchema == \E e \in SchemaEnvironments : Constructed(e)

SpecSchema == InitSchema /\ [][NextSand]_vars

\* the whole pipeline over every schema of AliasFamily
InitAlias == \E e \in AliasEnvironments : Constructed(e)

SpecAlias == InitAlias /\ [][Next]_vars

\* workbooks that read well or fail in one place: the base one, one whose
\* years start later, one without rows, one without the two markers
ConfigWorkbooks ==
    {BaseWorkbook, LateWorkbook, Workbook(BaseSets, BaseHeader, <<>>),
     Workbook([BaseSets EXCEPT !.Emissions = <<PyStr("Code"), PyStr("CO2")>>],
              BaseHeader, BaseEntries)}

\* the schema document absent, empty or present, beside each workbook
ConfigEnvironments ==
    {Environment(doc, wb, from, FirstYear + 1) :
        doc \in {NoDocument, Document(<<>>), Document(BaseSchema)},
        wb \in ConfigWorkbooks, from \in Years}

\* the reader with and without a schema document
InitConfig == \E e \in ConfigEnvironments : Constructed(e)

SpecConfig == InitConfig /\ [][NextSand]_vars

\* schemas in which MODE_OF_OPERATION is declared by a param, by a result
\* only, or by no field
SeedSchemas ==
    {SchemaWith(vc, <<"REGION", "STORAGE">>, <<"REGION", "MODE_OF_OPERATION">>,
                TRUE) :
        vc \in {<<"REGION">>, <<"REGION", "MODE_OF_OPERATION">>}}
    \cup {SchemaWith(<<"REGION">>, <<"REGION">>, <<"REGION">>, FALSE)}

QueryEnvironments ==
    ConfigEnvironments
    \cup {Environment(Document(BaseSchema), wb, FirstYear, FirstYear + 1) :
            wb \in HeaderWorkbooks \cup {FullWorkbook}}
    \cup {Environment(Document(schema), FullWorkbook, FirstYear, FirstYear + 1) :
            schema \in SeedSchemas}

\* the reader and the queries, called in any order
InitQueries == \E e \in QueryEnvironments : Constructed(e)

NextQueries ==
    \/ ReadInputData
    \/ SetInputData
    \/ WriteSandConfigFile
    \/ GetImplicitSets
    \/ NonRequiredFields
    \/ ProcessesImplicitSets

SpecQueries == InitQueries /\ [][NextQueries]_vars

\* the columns the sheet of a parameter may have
ParamColumns ==
    {<<PyStr("REGION"), PyStr("TECHNOLOGY"), PyStr("VALUE")>>,
     <<PyStr("MODE_OF_OPERATION"), PyStr("REGION"), PyInt(FirstYear)>>,
     <<PyStr("REGION"), PyStr("YEAR")>>}

\* the sheet of VariableCost under its name or its short name, empty or
\* with a row left in it
ParamSheets ==
    {Sheet(name, cols, rows) :
        name \in {"VariableCost", "VarCost"}, cols \in ParamColumns,
        rows \in {<<>>, <<[j \in 1..3 |-> PyStr("D4")]>>}}

\* otoole workbooks: the sheet of REGION, then maybe a sheet of
\* VariableCost, of the implicit set MODE_OF_OPERATION, of a result
Templates ==
    {<<SetSheet("REGION")>> \o param \o implicit \o result :
        param \in {<<>>} \cup {<<sheet>> : sheet \in ParamSheets},
        implicit \in {<<>>, <<SetSheet("MODE_OF_OPERATION")>>,
                      <<Sheet("MODE_OF_OPERATION", <<PyStr("VALUE")>>,
                              <<<<PyInt(0)>>>>)>>},
        result \in {<<>>, <<Sheet("RateOfActivity",
                                  <<PyStr("REGION"), PyStr("VALUE")>>, <<>>)>>}}

TemplateSchemas ==
    {BaseSchema,
     [BaseSchema EXCEPT !["VariableCost"] = WithShortName(@, "VarCost")]}

TemplateEnvironments ==
    {[Environment(Document(schema), BaseWorkbook, FirstYear, FirstYear + 1)
        EXCEPT !.template = file] :
        schema \in TemplateSchemas, file \in Templates}

\* the whole pipeline up to the populated otoole workbook
InitTemplate == \E e \in TemplateEnvironments : Constructed(e)

NextTemplate == Next \/ PopulateTemplate

SpecTemplate == InitTemplate /\ [][NextTemplate]_vars

-----------------------------------------------------------------------------
(* Pruning *)

\* the last call was one of ops and returned
Returned(ops) == last.op \in ops /\ last.exc = "none"

\* the observed roster, sets_list + params_list, as a set of names
Roster == {x.str : x \in {y \in Range(sets_list.val \o params_list.val) : IsStr(y)}}

\* (a) the sets and params of a schema that are not in the roster
Unobserved(schema) ==
    {f \in DOMAIN schema : schema[f].type \in {"set", "param"} /\ f \notin Roster}

\* (b) the params and results of a schema that index by an unobserved set
Orphaned(schema) ==
    {f \in DOMAIN schema :
        /\ schema[f].type \in {"param", "result"}
        /\ \E s \in Unobserved(schema) :
              schema[s].type = "set" /\ s \in Range(schema[f].indices)}

RemovalSet(schema) == Unobserved(schema) \cup Orphaned(schema)

\* write_sand_config_file has pruned the loaded schema
Pruned == config_yaml.kind = "value" /\ sand_yaml.kind = "value"

\* C1: after pruning, no field that remains in sand_yaml lists a removed
\* field in its indices.
C1_NoDanglingIndex ==
    Pruned =>
        \A f \in DOMAIN config_yaml.val \ DOMAIN sand_yaml.val :
            \A g \in DOMAIN sand_yaml.val :
                "indices" \in DOMAIN sand_yaml.val[g]
                    => f \notin Range(sand_yaml.val[g].indices)

\* a pruning that removed a set, a param and a result indexed by that set
\* while a param and a result remain
C1_Witness ==
    /\ Returned({"write_sand_config_file"})
    /\ Pruned
    /\ {"STORAGE", "TechnologyToStorage", "RateOfActivity"}
            \subseteq DOMAIN config_yaml.val \ DOMAIN sand_yaml.val
    /\ "STORAGE" \in Range(config_yaml.val["RateOfActivity"].indices)
    /\ "STORAGE" \in Range(config_yaml.val["TechnologyToStorage"].indices)
    /\ "TechnologyToStorage" \in Roster
    /\ "VariableCost" \in DOMAIN sand_yaml.val

\* C2: the pruned schema has exactly the keys of the loaded schema minus
\* the removal set, (a) the sets and params not in sets_list + params_list
\* and (b) the params and results indexing a set of (a), and every kept
\* field keeps its features.
C2_PrunedSchema ==
    Pruned =>
        /\ DOMAIN sand_yaml.val = DOMAIN config_yaml.val \ RemovalSet(config_yaml.val)
        /\ \A f \in DOMAIN sand_yaml.val : sand_yaml.val[f] = config_yaml.val[f]

\* a pruning whose removal set has a field of (a) only and a field of (b)
\* only, and that keeps fields
C2_Witness ==
    /\ Returned({"write_sand_config_file"})
    /\ Pruned
    /\ Unobserved(config_yaml.val) \ Orphaned(config_yaml.val) # {}
    /\ Orphaned(config_yaml.val) \ Unobserved(config_yaml.val) # {}
    /\ \E f \in DOMAIN sand_yaml.val : sand_yaml.val[f].type = "param"
    /\ \E f \in DOMAIN sand_yaml.val : sand_yaml.val[f].type = "result"

\* the object as it would be with the pruned schema loaded as its schema
Repruning == [Self EXCEPT !.config_yaml = sand_yaml]

\* C3: pruning the already-pruned schema with the same sets_list and
\* params_list removes nothing and returns the same schema.
C3_PruningIdempotent ==
    Pruned =>
        /\ non_required_fields(Repruning) = Val(<<>>)
        /\ rm_non_fields(Repruning) = Return(sand_yaml)

\* a pruning that removed fields and kept fields
C3_Witness ==
    /\ Returned({"write_sand_config_file"})
    /\ Pruned
    /\ DOMAIN sand_yaml.val # DOMAIN config_yaml.val
    /\ Orphaned(config_yaml.val) # {}
    /\ \E f \in DOMAIN sand_yaml.val : sand_yaml.val[f].type = "result"

-----------------------------------------------------------------------------
(* The fields that seed the implicit sets *)

\* the names of sets_list that are no explicit set, no parameter table and
\* none of VALUE, YEAR, REGIONR
ImplicitNames ==
    Roster \ ({"VALUE", "YEAR", "REGIONR"} \cup ExplicitSets
                \cup {x.str : x \in Range(params_list.val)})

\* C7: every key of the mapping processes_implicit_sets returns is of kind
\* param, is not in the removal set, and declares in its indices each
\* implicit set the mapping gives it.
C7_SeedsAreKeptParams ==
    LET mapping == processes_implicit_sets(Self)
    IN  mapping.exc = "none" =>
            \A p \in DOMAIN mapping.val :
                /\ config_yaml.val[p].type = "param"
                /\ p \notin RemovalSet(config_yaml.val)
                /\ \A s \in Range(mapping.val[p]) :
                      /\ s.str \in ImplicitNames
                      /\ s.str \in Range(config_yaml.val[p].indices)

\* after a read, the mapping has a key while a result and a removed param
\* index the same implicit set
C7_Witness ==
    /\ Returned({"read_input_data"})
    /\ LET mapping == processes_implicit_sets(Self)
       IN  /\ mapping.exc = "none"
           /\ "VariableCost" \in DOMAIN mapping.val
           /\ mapping.val["VariableCost"] = <<PyStr("MODE_OF_OPERATION")>>
    /\ "RateOfActivity" \in DOMAIN config_yaml.val
    /\ "MODE_OF_OPERATION" \in Range(config_yaml.val["RateOfActivity"].indices)
    /\ "TechnologyToStorage" \in RemovalSet(config_yaml.val)
    /\ "MODE_OF_OPERATION" \in Range(config_yaml.val["TechnologyToStorage"].indices)

-----------------------------------------------------------------------------
(* The DataModel after set_input_data *)

\* the parameter tables selected as depending on the implicit set s: the
\* params of the schema that declare s and are not removed
Seeds(s) ==
    {p \in DOMAIN config_yaml.val :
        /\ config_yaml.val[p].type = "param"
        /\ s \in Range(config_yaml.val[p].indices)
        /\ p \notin RemovalSet(config_yaml.val)}

\* the values of column s of the table of parameter p
ColumnValues(p, s) ==
    LET df == input_sand.val[p]
    IN  {df.rows[k][c] : k \in 1..Len(df.rows),
                         c \in {j \in 1..Len(df.columns) : df.columns[j] = PyStr(s)}}

\* a value of a source column as a member of a set of the given dtype
AsMember(v, dtype) ==
    IF dtype = "str" /\ IsInt(v) THEN PyStr(Decimal(v.int)) ELSE v

\* C6: after set_input_data, for every implicit set s, input_sand[s] is the
\* union of column s over the parameter tables selected as depending on s,
\* without duplicates and ascending, whatever the order of the rows.
C6_ImplicitSetIsSortedUnion ==
    Returned({"set_input_data"}) =>
        \A s \in ImplicitNames :
            LET union == UNION {ColumnValues(p, s) : p \in Seeds(s)}
                dtype == config_yaml.val[s].dtype
                members == input_sand.val[s]
            IN  /\ Range(members) = {AsMember(v, dtype) : v \in union}
                /\ Len(members) = Cardinality(union)
                /\ \A k \in 1..(Len(members) - 1) :
                      \E v, w \in union :
                          /\ members[k] = AsMember(v, dtype)
                          /\ members[k + 1] = AsMember(w, dtype)
                          /\ PyLess(v, w)

\* two tables with the code 2 in common, one of them with its rows in
\* descending order, gave [1, 2]
C6_Witness ==
    /\ Returned({"set_input_data"})
    /\ Seeds("MODE_OF_OPERATION") = {"VariableCost", "TechnologyToStorage"}
    /\ {"VariableCost", "TechnologyToStorage"} \subseteq DOMAIN input_sand.val
    /\ Len(input_sand.val["VariableCost"].rows) = 2
    /\ [k \in 1..2 |-> input_sand.val["VariableCost"].rows[k][3]]
            = <<PyInt(2), PyInt(1)>>
    /\ ColumnValues("TechnologyToStorage", "MODE_OF_OPERATION") = {PyInt(2)}
    /\ input_sand.val["MODE_OF_OPERATION"] = <<PyInt(1), PyInt(2)>>

\* C8: after set_input_data, input_sand["YEAR"] is the ascending sequence
\* of the integers from from_year to to_year, whatever the workbook holds.
C8_YearIsConfiguredRange ==
    Returned({"set_input_data"}) =>
        LET years == input_sand.val["YEAR"]
        IN  /\ Len(years) = (IF to_year < from_year THEN 0
                             ELSE to_year - from_year + 1)
            /\ \A k \in 1..Len(years) : years[k] = PyInt(from_year + k - 1)

\* set_input_data returned the years of a range of more than one year, on a
\* sheet with more year columns than that
C8_Witness ==
    /\ Returned({"set_input_data"})
    /\ to_year > from_year
    /\ input_sand.val["YEAR"] = <<PyInt(from_year), PyInt(from_year + 1)>>
    /\ PyInt(to_year + 1) \in Range(input_sand.val["VariableCost"].columns)

-----------------------------------------------------------------------------
(* The alias tables *)

\* the schema the Otoole_Interface holds
ActiveSchema == otoole.sand_yaml.val

\* two fields of the schema produce the same alias key
AliasCollision(schema) ==
    \E f, g \in DOMAIN schema :
        f # g /\ AliasKey(f, schema[f]) = AliasKey(g, schema[g])

\* C4: the table of set_full_names (short -> full) and the table of
\* set_short_names (full -> short) are inverses of each other, and every
\* field of the active schema is in them.
C4_AliasTablesAreInverse ==
    (Returned({"set_short_names"}) /\ otoole.sand_yaml.kind = "value") =>
        LET full == otoole.full_names.val
            short == last.val
        IN  /\ \A x \in DOMAIN full :
                  full[x] \in DOMAIN short /\ short[full[x]] = x
            /\ \A f \in DOMAIN ActiveSchema :
                  /\ f \in DOMAIN short
                  /\ short[f] \in DOMAIN full
                  /\ full[short[f]] = f

\* C5: set_full_names fails whenever two fields of the schema produce the
\* same alias key; it never leaves a table in which one overwrote the other.
C5_AliasCollisionIsFatal ==
    (otoole.sand_yaml.kind = "value" /\ AliasCollision(ActiveSchema)) =>
        /\ last.op \in {"set_full_names", "set_short_names"} => last.exc # "none"
        /\ otoole.full_names.kind = "unset"

-----------------------------------------------------------------------------
(* The sentinel split of the Emissions column *)

\* the combined emissions+region column __split_emission_region is given:
\* the str cells of the Emissions column other than the header "Code"
CombinedColumn ==
    SelectSeq(workbook.sets.Emissions,
              LAMBDA x : IsStr(x) /\ x # PyStr("Code"))

RegionRows(col) == {k \in 1..Len(col) : col[k] = PyStr("Region")}

ResultsPathRows(col) == {k \in 1..Len(col) : col[k].str \in ResultsPathCells}

\* one "Region" row, followed later by the one row containing "ResultsPath"
ExpectedLayout(col) ==
    /\ Cardinality(RegionRows(col)) = 1
    /\ Cardinality(ResultsPathRows(col)) = 1
    /\ \A r \in RegionRows(col) : \A p \in ResultsPathRows(col) : r < p

\* C9: for a combined column with one "Region" row followed later by one
\* row containing "ResultsPath", reading the workbook returns, and EMISSION
\* is every row before the "Region" row and REGION the rows strictly
\* between the "Region" row and the "ResultsPath" row.
C9_SentinelSplit ==
    LET col == CombinedColumn
    IN  ExpectedLayout(col) =>
          /\ last.op = "read_input_data" => last.exc = "none"
          /\ input_sand.kind = "value" =>
                \A r \in RegionRows(col) : \A p \in ResultsPathRows(col) :
                    /\ input_sand.val["EMISSION"] = SubSeq(col, 1, r - 1)
                    /\ input_sand.val["REGION"] = SubSeq(col, r + 1, p - 1)

\* a read of [CO2, Region, RE1, ResultsPath] gave EMISSION [CO2], REGION [RE1]
C9_Witness ==
    /\ Returned({"read_input_data"})
    /\ CombinedColumn = <<PyStr("CO2"), PyStr("Region"), PyStr("RE1"),
                          PyStr("C:/ResultsPath/")>>
    /\ input_sand.val["EMISSION"] = <<PyStr("CO2")>>
    /\ input_sand.val["REGION"] = <<PyStr("RE1")>>

\* C10: when the combined column does not have the expected layout (a
\* marker missing, repeated, or the two out of order), reading the workbook
\* reports an error and no EMISSION/REGION split is returned.
C10_MalformedLayoutReported ==
    ~ExpectedLayout(CombinedColumn) =>
        /\ last.op = "read_input_data" => last.exc # "none"
        /\ input_sand.kind = "unset"

-----------------------------------------------------------------------------
(* The explicit sets of the SETS sheet *)

\* a list holds no member twice
NoDuplicates(list) ==
    \A j, k \in 1..Len(list) : list[j] = list[k] => j = k

\* C11: each of the four explicit sets read from the SETS sheet holds no
\* member twice and never holds the header "Code", whatever the columns of
\* the sheet hold. Stated for the sheets whose Emissions column has the
\* expected layout, so that a wrong split is not what breaks it.
C11_ExplicitSetsDeduplicated ==
    (input_sand.kind = "value" /\ ExpectedLayout(CombinedColumn)) =>
        \A s \in ExplicitSets :
            /\ NoDuplicates(input_sand.val[s])
            /\ PyStr("Code") \notin Range(input_sand.val[s])

\* the half of C11 about the header: no explicit set holds "Code"
C11_NoHeaderInExplicitSets ==
    input_sand.kind = "value" =>
        \A s \in ExplicitSets : PyStr("Code") \notin Range(input_sand.val[s])

-----------------------------------------------------------------------------
(* The schema document absent *)

\* the workbook is one the reader gets through: both markers in the
\* Emissions column, a row of CapacityToActivityUnit, from_year a column
WorkbookReadable ==
    /\ RegionRows(CombinedColumn) # {}
    /\ ResultsPathRows(CombinedColumn) # {}
    /\ \E k \in 1..Len(workbook.rows) :
          workbook.rows[k].Parameter = "CapacityToActivityUnit"
    /\ PyInt(from_year) \in Range(RenameColumns(workbook.columns))

\* C12: with the schema document absent, read_input_data and set_input_data
\* fail, with FileNotFoundError once the workbook has been read through;
\* config_yaml is never set and no input_sand is produced.
C12_AbsentSchemaHalts ==
    ~config_file.exists =>
        /\ last.op \in {"read_input_data", "set_input_data"} =>
              /\ last.exc # "none"
              /\ WorkbookReadable => last.exc = "FileNotFoundError"
        /\ config_yaml.kind = "unset"
        /\ input_sand.kind = "unset"

\* set_input_data failed on the absent document after the reader had set
\* sets_list and params_list from a readable workbook
C12_Witness ==
    /\ ~config_file.exists
    /\ WorkbookReadable
    /\ last = Call("set_input_data", "FileNotFoundError", <<>>)
    /\ sets_list.kind = "value"
    /\ params_list.kind = "value"

-----------------------------------------------------------------------------
(* The queries before the workbook was read *)

\* no read_input_data has set anything yet
NothingRead ==
    /\ sets_list.kind = "unset"
    /\ params_list.kind = "unset"
    /\ config_yaml.kind = "unset"
    /\ input_sand.kind = "unset"

-----------------------------------------------------------------------------
(* The otoole workbook populated *)

\* the fields of the active schema a sheet name stands for
Resolved(sheet) ==
    {f \in DOMAIN ActiveSchema :
        sheet = (IF "short_name" \in DOMAIN ActiveSchema[f]
                 THEN ActiveSchema[f].short_name ELSE f)}

\* a sheet of the otoole workbook stands for no field that input_sand holds
UnknownField ==
    /\ otoole.sand_yaml.kind = "value"
    /\ \E k \in 1..Len(template) :
          \A f \in Resolved(template[k].name) :
              input_sand.kind = "unset" \/ f \notin DOMAIN input_sand.val

\* C14: a call of populate_template on an otoole workbook with a sheet whose
\* field has no entry in input_sand raises, and the call does not set
\* input_otoole.
C14_UnknownFieldIsFatal ==
    [][(last'.op = "populate_template" /\ UnknownField) =>
          /\ last'.exc # "none"
          /\ otoole'.input_otoole = otoole.input_otoole]_vars

\* populate_template raised KeyError on a workbook whose first sheet is a
\* set input_sand holds and whose last sheet is a result it does not hold
C14_Witness ==
    /\ last.op = "populate_template"
    /\ last.exc = "KeyError"
    /\ UnknownField
    /\ input_sand.kind = "value"
    /\ template[1].name \in DOMAIN input_sand.val
    /\ template[Len(template)].name = "RateOfActivity"
    /\ Resolved("RateOfActivity") = {"RateOfActivity"}
    /\ otoole.input_otoole.kind = "unset"

\* a table cut down to the given columns, in their order, every row kept
\* in its place
Restricted(table, cols) ==
    [columns |-> cols,
     rows |-> [k \in 1..Len(table.rows) |->
                [j \in 1..Len(cols) |->
                    table.rows[k][CHOOSE i \in 1..Len(table.columns) :
                                      table.columns[i] = cols[j]]]]]

\* C15: after populate_template, the table of every sheet that stands for a
\* parameter is the table of input_sand cut down to the columns of the
\* sheet, with the rows of the source in their order; the rows the sheet
\* held are gone.
C15_ParameterTableSubstituted ==
    (last.op = "populate_template" /\ last.exc = "none") =>
        \A k \in 1..Len(template) :
            \A f \in Resolved(template[k].name) :
                (StrIn(f, params_list.val) /\ ~StrIn(f, sets_list.val)) =>
                    otoole.input_otoole.val[f]
                        = Restricted(input_sand.val[f], template[k].df.columns)

\* a sheet of VariableCost that held a row was populated with the two rows
\* of the source, in the order of the source (code 2, then code 1)
C15_Witness ==
    /\ last.op = "populate_template"
    /\ last.exc = "none"
    /\ \E k \in 1..Len(template) :
          /\ Resolved(template[k].name) = {"VariableCost"}
          /\ template[k].df.rows # <<>>
          /\ template[k].df.columns
                = <<PyStr("MODE_OF_OPERATION"), PyStr("REGION"), PyInt(FirstYear)>>
    /\ otoole.input_otoole.val["VariableCost"].rows
          = << <<PyInt(2), PyStr("RE1"), PyInt(0)>>,
               <<PyInt(1), PyStr("RE1"), PyInt(0)>> >>

-----------------------------------------------------------------------------
(* The set roster *)

\* the columns of the Parameters sheet as read_input_data names them
SheetColumns == RenameColumns(workbook.columns)

\* the columns before the first year column (all of them when there is no
\* year column)
IndexColumns ==
    SelectSeq(SheetColumns,
              LAMBDA c : \A k \in 1..Len(SheetColumns) :
                            (SheetColumns[k] = c) =>
                                \A j \in 1..k : ~IsInt(SheetColumns[j]))

\* C16: sets_list is the columns of the Parameters sheet before the first
\* year column, in sheet order, followed by "YEAR"; it holds no year
\* column, whatever from_year is.
C16_RosterIsIndexColumns ==
    sets_list.kind = "value" =>
        /\ sets_list.val = IndexColumns \o <<PyStr("YEAR")>>
        /\ \A k \in 1..Len(sets_list.val) : ~IsInt(sets_list.val[k])

\* the case of C16 that holds: from_year is the first year column
C16_RosterWhenFromYearIsFirst ==
    (/\ sets_list.kind = "value"
     /\ Len(IndexColumns) < Len(SheetColumns)
     /\ PyInt(from_year) = SheetColumns[Len(IndexColumns) + 1])
        => sets_list.val = IndexColumns \o <<PyStr("YEAR")>>

-----------------------------------------------------------------------------
(* The pruned schema beside the loaded one *)

\* sand_yaml is a mapping with some of the keys of config_yaml and the
\* values config_yaml gives them
Subschema ==
    /\ sand_yaml.kind = "value"
    /\ config_yaml.kind = "value"
    /\ DOMAIN sand_yaml.val \subseteq DOMAIN config_yaml.val
    /\ \A f \in DOMAIN sand_yaml.val : sand_yaml.val[f] = config_yaml.val[f]

\* C17: in every state reached by calls of read_input_data, set_input_data
\* and write_sand_config_file in any order, sand_yaml, once set, is a
\* mapping with keys of config_yaml and config_yaml's values for them.
C17_SandYamlIsSubschema == sand_yaml.kind # "unset" => Subschema

\* the cases of C17 that hold: once config_yaml is loaded, a sand_yaml that
\* write_sand_config_file sets is a subschema of it, and a call of
\* write_sand_config_file leaves config_yaml as it was
C17_PrunedAfterReadIsSubschema ==
    (Returned({"write_sand_config_file"}) /\ config_yaml.kind = "value")
        => Subschema

C17_PruningKeepsConfigYaml ==
    [][last'.op = "write_sand_config_file" => config_yaml' = config_yaml]_vars

-----------------------------------------------------------------------------
(* The implicit sets before and after set_input_data *)

\* the members of sets_list that are not VALUE, YEAR or REGIONR and are no
\* key of input_sand, in the order of sets_list
Candidates ==
    SelectSeq(sets_list.val,
              LAMBDA x : /\ x \notin {PyStr("VALUE"), PyStr("YEAR"), PyStr("REGIONR")}
                         /\ \A key \in DOMAIN input_sand.val : x # PyStr(key))

\* C18: once the workbook is read, get_implicit_sets returns the members of
\* sets_list that are not VALUE, YEAR or REGIONR and are no key of
\* input_sand; after set_input_data has returned there is none left, and
\* the next get_implicit_sets returns the empty list and the next
\* processes_implicit_sets the empty mapping.
C18_ImplicitSetsByStage ==
    /\ []((sets_list.kind = "value" /\ input_sand.kind = "value") =>
            /\ get_implicit_sets(Self) = Return(Candidates)
            /\ last.op = "get_implicit_sets" =>
                  last.exc = "none" /\ last.val = Candidates
            /\ Returned({"set_input_data"}) => Candidates = <<>>)
    /\ [][Returned({"set_input_data"}) =>
            /\ last'.op = "get_implicit_sets" =>
                  last'.exc = "none" /\ last'.val = <<>>
            /\ last'.op = "processes_implicit_sets" =>
                  last'.exc = "none" /\ DOMAIN last'.val = {}]_vars

\* get_implicit_sets returned the empty list on an object whose
\* set_input_data has made MODE_OF_OPERATION and STORAGE keys of input_sand
C18_Witness ==
    /\ last.op = "get_implicit_sets"
    /\ last.exc = "none"
    /\ last.val = <<>>
    /\ input_sand.kind = "value"
    /\ {"MODE_OF_OPERATION", "STORAGE", "YEAR"} \subseteq DOMAIN input_sand.val
    /\ input_sand.val["MODE_OF_OPERATION"] # <<>>
    /\ {PyStr("MODE_OF_OPERATION"), PyStr("STORAGE")} \subseteq Range(sets_list.val)

====
